---------------------------- MODULE Spec2Model ----------------------------
(***************************************************************************)
(* AWS Cloud Cost Analyzer: the resource scanner (scripts/cloud_analyzer)  *)
(* and the Streamlit report dashboard (dashboard/dashboard), connected     *)
(* only through the CSV report file.                                       *)
(*                                                                         *)
(* Text is a sequence of one-character strings, so that formatting,        *)
(* parsing and searching are computed character by character.  Money is    *)
(* kept in hundredths of a dollar (an integer); CPU percentages and        *)
(* sizes are kept as exact integers and divided where the code divides.    *)
(***************************************************************************)
EXTENDS Integers, Sequences, FiniteSets, TLC

(***************************************************************************)
(* Bounds of the model.                                                    *)
(***************************************************************************)
MaxRes == 2         \* resources in the scanned account, all services together
MaxRows == 2        \* data rows of a report file given to the dashboard

\* The value of a statement: the element of {e(x) : x \in {v}}, in which the
\* intermediate value v is computed once and named x
Value(S) == CHOOSE r \in S : TRUE

(***************************************************************************)
(* Text helpers.                                                           *)
(***************************************************************************)
DigitChars == <<"0", "1", "2", "3", "4", "5", "6", "7", "8", "9">>

IsDigit(c) == \E i \in 1..10 : DigitChars[i] = c

DigitVal(c) == (CHOOSE i \in 1..10 : DigitChars[i] = c) - 1

RECURSIVE NatToChars(_)
NatToChars(n) ==
    IF n < 10 THEN <<DigitChars[n + 1]>>
    ELSE NatToChars(n \div 10) \o <<DigitChars[(n % 10) + 1]>>

RECURSIVE DigitsToNat(_)
DigitsToNat(s) ==
    IF s = <<>> THEN 0
    ELSE 10 * DigitsToNat(SubSeq(s, 1, Len(s) - 1)) + DigitVal(s[Len(s)])

AllDigits(s) == \A i \in 1..Len(s) : IsDigit(s[i])

IndexOf(s, c) ==
    IF \E i \in 1..Len(s) : s[i] = c
    THEN CHOOSE i \in 1..Len(s) : s[i] = c /\ \A j \in 1..(i - 1) : s[j] # c
    ELSE 0

\* str.lower() on the letters the model uses
UpperChars == <<"A", "B", "C", "D", "E", "I", "N", "S", "U">>
LowerChars == <<"a", "b", "c", "d", "e", "i", "n", "s", "u">>

Lower(c) ==
    IF \E i \in 1..Len(UpperChars) : UpperChars[i] = c
    THEN LowerChars[CHOOSE i \in 1..Len(UpperChars) : UpperChars[i] = c]
    ELSE c

(***************************************************************************)
(* Python number formatting.  f"{x:.2f}" of a value given in hundredths,   *)
(* and repr(float) of a value in hundredths as to_csv writes it (shortest  *)
(* form, at least one fractional digit).                                   *)
(***************************************************************************)
Fmt2f(h) ==
    NatToChars(h \div 100) \o <<".">> \o
    <<DigitChars[((h % 100) \div 10) + 1], DigitChars[(h % 10) + 1]>>

FloatRepr(h) ==
    LET a == IF h < 0 THEN -h ELSE h
        sign == IF h < 0 THEN <<"-">> ELSE <<>>
        frac == IF a % 10 = 0
                THEN <<DigitChars[((a % 100) \div 10) + 1]>>
                ELSE <<DigitChars[((a % 100) \div 10) + 1], DigitChars[(a % 10) + 1]>>
    IN  sign \o NatToChars(a \div 100) \o <<".">> \o frac

\* round(x, 2) of the exact quotient num / den, in hundredths (den > 0, num >= 0)
Round2(num, den) == (2 * 100 * num + den) \div (2 * den)

(***************************************************************************)
(* DataFrame cells: text, a number (hundredths; int64 or float64 column),  *)
(* or NaN.                                                                 *)
(***************************************************************************)
Str(s) == [t |-> "str", s |-> s, n |-> 0, f |-> FALSE]
Num(n, isfloat) == [t |-> "num", s |-> <<>>, n |-> n, f |-> isfloat]
NaN == [t |-> "nan", s |-> <<>>, n |-> 0, f |-> TRUE]

IsNaN(v) == v.t = "nan"


(***************************************************************************)
(* Resource Scanner: configuration.  Rates are in thousandths of a dollar. *)
(***************************************************************************)
EC2_COST_PER_HOUR == 23
RDS_COST_PER_HOUR == 41
S3_COST_PER_GB == 23
HOURS_PER_MONTH == 730
\* object sizes are counted in MiB; 1024 ** 3 bytes are MiBPerGB of them
MiBPerGB == 1024

sEC2 == <<"E", "C", "2">>
sRDS == <<"R", "D", "S">>
sS3 == <<"S", "3">>
sUnknown == <<"u", "n", "k", "n", "o", "w", "n">>
sBucket == <<"B", "u", "c", "k", "e", "t">>
sT2Micro == <<"t", "2", ".", "m", "i", "c", "r", "o">>
sDbT3Micro == <<"d", "b", ".", "t", "3", ".", "m", "i", "c", "r", "o">>

RECURSIVE SumSeq(_)
SumSeq(s) == IF s = <<>> THEN 0 ELSE s[1] + SumSeq(Tail(s))

\* avg_cpu as the exact quotient num / den: 0 when the query returned no
\* data point, else sum(Average) / len(Datapoints)
AvgCpu(datapoints) ==
    IF datapoints # <<>>
    THEN [num |-> SumSeq(datapoints), den |-> Len(datapoints)]
    ELSE [num |-> 0, den |-> 1]

\* avg_cpu < 5
IsIdleMut(avg) == avg.num <= 5 * avg.den
IsIdle(avg) == avg.num < 5 * avg.den

\* f"CPU {avg_cpu:.2f}%"
CpuMetric(avg) ==
    <<"C", "P", "U", " ">> \o Fmt2f(Round2(avg.num, avg.den)) \o <<"%">>

\* one dict appended to rows by analyze_ec2 / analyze_rds
CpuRow(id, service, type, datapoints, rate) ==
    LET avg_cpu == AvgCpu(datapoints)
        est_cost == rate * HOURS_PER_MONTH
        potential_saving == IF IsIdle(avg_cpu) THEN est_cost ELSE 0
    IN  [ResourceID |-> id,
         Service |-> service,
         ResourceType |-> type,
         UsageMetric |-> CpuMetric(avg_cpu),
         EstimatedCostUSD |-> Num(Round2(est_cost, 1000), TRUE),
         \* est_cost is a float, the literal 0 an int
         PotentialSavingsUSD |-> Num(Round2(potential_saving, 1000), IsIdle(avg_cpu))]

analyze_ec2(instances) ==
    [k \in 1..Len(instances) |->
        CpuRow(instances[k].InstanceId, sEC2,
               IF instances[k].hasType THEN instances[k].InstanceType ELSE sUnknown,
               instances[k].Datapoints, EC2_COST_PER_HOUR)]

analyze_rds(instances) ==
    [k \in 1..Len(instances) |->
        CpuRow(instances[k].DBInstanceIdentifier, sRDS,
               IF instances[k].hasType THEN instances[k].DBInstanceClass ELSE sUnknown,
               instances[k].Datapoints, RDS_COST_PER_HOUR)]

\* the paginate loop of one bucket from page i on: total_size grows page by
\* page and the first failing page raises
RECURSIVE Paginate(_, _, _)
Paginate(pages, i, total_size) ==
    IF i > Len(pages) THEN [raised |-> FALSE, total_size |-> total_size]
    ELSE IF ~pages[i].ok THEN [raised |-> TRUE, total_size |-> total_size]
    ELSE Paginate(pages, i + 1, total_size + SumSeq(pages[i].Contents))

\* size_gb after the try block, in MiB: assigned only when the loop ended
BucketSizeMut(pages) == Paginate(pages, 1, 0).total_size
BucketSize(pages) ==
    LET r == Paginate(pages, 1, 0)
    IN  IF r.raised THEN 0 ELSE r.total_size

\* f"Size {size_gb:.2f} GB"
SizeMetric(size) ==
    <<"S", "i", "z", "e", " ">> \o Fmt2f(Round2(size, MiBPerGB)) \o <<" ", "G", "B">>

S3Row(name, size) ==
    LET est_num == size * S3_COST_PER_GB          \* est_cost = est_num / (MiBPerGB * 1000)
        big == size > MiBPerGB                     \* size_gb > 1
    IN  [ResourceID |-> name,
         Service |-> sS3,
         ResourceType |-> sBucket,
         UsageMetric |-> SizeMetric(size),
         EstimatedCostUSD |-> Num(Round2(est_num, MiBPerGB * 1000), TRUE),
         PotentialSavingsUSD |->
             IF big THEN Num(Round2(est_num, 2 * MiBPerGB * 1000), TRUE)
             ELSE Num(0, FALSE)]

analyze_s3(buckets) ==
    [k \in 1..Len(buckets) |-> S3Row(buckets[k].Name, BucketSize(buckets[k].Pages))]


(***************************************************************************)
(* The report file.  A CSV file is a header (column names) and rows of     *)
(* cell texts; no text of the model holds a delimiter, a quote or a line   *)
(* break, so to_csv quotes nothing.                                        *)
(***************************************************************************)
ScannerColumns ==
    <<"ResourceID", "Service", "ResourceType", "UsageMetric",
      "EstimatedCostUSD", "PotentialSavingsUSD">>

\* a number of a float64 column is written as repr(float), of an int64
\* column as its digits (the model's int64 cells are whole dollars)
FormatNum(v, colfloat) ==
    IF colfloat THEN FloatRepr(v.n)
    ELSE (IF v.n < 0 THEN <<"-">> ELSE <<>>) \o
         NatToChars((IF v.n < 0 THEN -v.n ELSE v.n) \div 100)

\* pd.DataFrame(all_rows).to_csv(REPORT_FILE, index=False): a frame built from
\* no dict has no column, and its file has an empty header line
to_csv(rows) ==
    IF rows = <<>> THEN [header |-> <<>>, rows |-> <<>>]
    ELSE [header |-> ScannerColumns,
          rows |-> [k \in 1..Len(rows) |->
                      <<rows[k].ResourceID, rows[k].Service, rows[k].ResourceType,
                        rows[k].UsageMetric,
                        FormatNum(rows[k].EstimatedCostUSD,
                                  \E j \in 1..Len(rows) : rows[j].EstimatedCostUSD.f),
                        FormatNum(rows[k].PotentialSavingsUSD,
                                  \E j \in 1..Len(rows) : rows[j].PotentialSavingsUSD.f)>>]]


(***************************************************************************)
(* Report Dashboard: load and normalize.                                   *)
(***************************************************************************)
\* the cell texts pandas.read_csv reads as NaN (its default na_values)
NA_VALUES ==
    {<<>>,
     <<"n", "a", "n">>, <<"N", "a", "N">>, <<"-", "n", "a", "n">>, <<"-", "N", "a", "N">>,
     <<"n", "u", "l", "l">>, <<"N", "U", "L", "L">>,
     <<"N", "A">>, <<"N", "/", "A">>, <<"n", "/", "a">>, <<"#", "N", "A">>,
     <<"#", "N", "/", "A">>, <<"<", "N", "A", ">">>, <<"N", "o", "n", "e">>}

\* a cell text as a number: sign, digits, optional point and fraction.  The
\* texts of the model have at most two fractional digits.
ParseNum(s) ==
    LET neg == s # <<>> /\ s[1] = "-"
        body == IF neg THEN Tail(s) ELSE s
        dot == IndexOf(body, ".")
        ip == IF dot = 0 THEN body ELSE SubSeq(body, 1, dot - 1)
        fp == IF dot = 0 THEN <<>> ELSE SubSeq(body, dot + 1, Len(body))
        ok == ip # <<>> /\ AllDigits(ip) /\ AllDigits(fp) /\ Len(fp) <= 2
        mag == IF ~ok THEN 0
               ELSE 100 * DigitsToNat(ip) +
                    (IF Len(fp) = 1 THEN 10 * DigitVal(fp[1]) ELSE DigitsToNat(fp))
    IN  [ok |-> ok, n |-> IF neg THEN -mag ELSE mag, f |-> dot # 0]

\* read_csv's type inference of one column: NA texts become NaN; when every
\* other cell is a number the column is numeric (float64 as soon as a cell
\* is NaN or has a point), else the cells stay text
InferColumn(cells) ==
    LET isna(k) == cells[k] \in NA_VALUES
        numeric == \A k \in 1..Len(cells) : isna(k) \/ ParseNum(cells[k]).ok
        anyfloat == \E k \in 1..Len(cells) : isna(k) \/ ParseNum(cells[k]).f
    IN  [k \in 1..Len(cells) |->
            IF isna(k) THEN NaN
            ELSE IF numeric THEN Num(ParseNum(cells[k]).n, anyfloat)
            ELSE Str(cells[k])]

ColumnsOf(cols) == {cols[j] : j \in 1..Len(cols)}

\* pd.read_csv: a file with no column raises EmptyDataError
read_csv(file) ==
    IF file.header = <<>> THEN [err |-> TRUE, cols |-> <<>>, rows |-> <<>>]
    ELSE LET pos(c) == CHOOSE j \in 1..Len(file.header) : file.header[j] = c
         IN  Value({[err |-> FALSE,
                     cols |-> file.header,
                     rows |-> [k \in 1..Len(file.rows) |->
                                 [c \in ColumnsOf(file.header) |-> col[pos(c)][k]]]] :
                    col \in {[j \in 1..Len(file.header) |->
                                InferColumn([k \in 1..Len(file.rows) |->
                                                file.rows[k][j]])]}})

\* df.rename(columns={"EstimatedCostUSD": ..., "PotentialSavingsUSD": ...})
Renamed(c) ==
    IF c = "EstimatedCostUSD" THEN "EstimatedCost"
    ELSE IF c = "PotentialSavingsUSD" THEN "PotentialSavings"
    ELSE c

rename(df) ==
    LET old(c) == CHOOSE j \in 1..Len(df.cols) : Renamed(df.cols[j]) = c
        cols == [j \in 1..Len(df.cols) |-> Renamed(df.cols[j])]
    IN  [err |-> df.err,
         cols |-> cols,
         rows |-> [k \in 1..Len(df.rows) |->
                     [c \in ColumnsOf(cols) |-> df.rows[k][df.cols[old(c)]]]]]

expected ==
    <<"ResourceID", "Service", "ResourceType", "UsageMetric",
      "EstimatedCost", "PotentialSavings">>

NumericColumns == {"EstimatedCost", "PotentialSavings"}

\* for col in expected: if col not in df.columns: df[col] = 0 or ""
EnsureColumns(df) ==
    LET missing == SelectSeq(expected, LAMBDA col : col \notin ColumnsOf(df.cols))
    IN  [err |-> df.err,
         cols |-> df.cols \o missing,
         rows |-> [k \in 1..Len(df.rows) |->
                     [c \in ColumnsOf(df.cols) \cup ColumnsOf(missing) |->
                         IF c \in ColumnsOf(df.cols) THEN df.rows[k][c]
                         ELSE IF c \in NumericColumns THEN Num(0, FALSE)
                         ELSE Str(<<>>)]]]

\* pd.to_numeric(v, errors="coerce") followed by fillna(0.0), on one cell
Coerce(v) ==
    IF v.t = "num" THEN v
    ELSE IF v.t = "str" /\ ParseNum(v.s).ok THEN Num(ParseNum(v.s).n, ParseNum(v.s).f)
    ELSE Num(0, TRUE)

CoerceNumeric(df) ==
    [err |-> df.err,
     cols |-> df.cols,
     rows |-> [k \in 1..Len(df.rows) |->
                 [c \in ColumnsOf(df.cols) |->
                     IF c \in NumericColumns THEN Coerce(df.rows[k][c])
                     ELSE df.rows[k][c]]]]

load_csv_local(file) ==
    Value({IF df.err THEN df
           ELSE Value({Value({CoerceNumeric(full) :
                              full \in {EnsureColumns(renamed)}}) :
                       renamed \in {rename(df)}}) :
           df \in {read_csv(file)}})

load_csv_upload(file) ==
    Value({IF df.err THEN df
           ELSE Value({CoerceNumeric(full) : full \in {EnsureColumns(df)}}) :
           df \in {read_csv(file)}})


(***************************************************************************)
(* Report Dashboard: widgets, filters and KPIs of one script run.          *)
(***************************************************************************)
LocalMode == "Use local file path"
UploadMode == "Upload CSV"

\* sorted(df["Service"].dropna().unique().tolist()), as a set
ServiceOptions(df) ==
    {v \in {df.rows[k]["Service"] : k \in 1..Len(df.rows)} : ~IsNaN(v)}

MaxOf(S) == CHOOSE x \in S : \A y \in S : y <= x

\* max_value of the slider, in hundredths: max(max_savings, 0.01), where
\* max_savings is 1.0 when the largest PotentialSavings is 0
SliderMax(df) ==
    LET mx == MaxOf({df.rows[k]["PotentialSavings"].n : k \in 1..Len(df.rows)})
        max_savings == IF mx = 0 THEN 100 ELSE mx
    IN  IF max_savings > 1 THEN max_savings ELSE 1

\* Series.astype(str) on one cell
AsStr(v) ==
    IF v.t = "str" THEN v.s
    ELSE IF v.t = "nan" THEN <<"n", "a", "n">>
    ELSE FormatNum(v, v.f)

\* re.search(pat, text, re.IGNORECASE) for a pattern of literal characters
\* and ".", which matches any character
RegexSearch(pat, text) ==
    \E off \in 0..(Len(text) - Len(pat)) :
        \A j \in 1..Len(pat) :
            pat[j] = "." \/ Lower(pat[j]) = Lower(text[off + j])

\* the boolean masks of "Apply filters" for one row, all of them together
Keep(row, selected, idle, threshold, search) ==
    /\ row["Service"] \in selected
    /\ idle => row["PotentialSavings"].n > 0
    /\ threshold > 0 => row["PotentialSavings"].n >= 100 * threshold
    /\ search # <<>> => RegexSearch(search, AsStr(row["ResourceID"]))

\* f: the rows of df the mask keeps, in their order
FilterRows(rows, selected, idle, threshold, search) ==
    SelectSeq(rows, LAMBDA row : Keep(row, selected, idle, threshold, search))

RECURSIVE SumColumn(_, _)
SumColumn(rows, col) ==
    IF rows = <<>> THEN 0 ELSE rows[1][col].n + SumColumn(Tail(rows), col)

CountFlagged(rows) ==
    Cardinality({k \in 1..Len(rows) : rows[k]["PotentialSavings"].n > 0})

\* total_cost, total_savings, flagged_count of the KPI block over `frame`
KpisMut(frame, filtered) ==
    [total_cost |-> SumColumn(filtered, "EstimatedCost"),
     total_savings |-> SumColumn(filtered, "PotentialSavings"),
     flagged_count |-> CountFlagged(filtered)]
Kpis(frame, filtered) ==
    [total_cost |-> SumColumn(frame.rows, "EstimatedCost"),
     total_savings |-> SumColumn(frame.rows, "PotentialSavings"),
     flagged_count |-> CountFlagged(frame.rows)]

(***************************************************************************)
(* State.                                                                  *)
(***************************************************************************)
VARIABLES
    \* scanner run (cloud_analyzer.py, __main__)
    pc,            \* next statement of the run
    ec2_api,       \* what describe_instances and the metric queries returned
    rds_api,       \* what describe_db_instances and the metric queries returned
    s3_api,        \* what list_buckets and the object listings returned
    all_rows,      \* all_rows
    report,        \* content of REPORT_FILE on disk
    stdout,        \* lines printed
    raised,        \* the run ended with an uncaught exception
    upload,        \* "none", "failed": outcome of the upload attempt
    reloaded,      \* the report as the dashboard's load_csv_local returns it
    \* dashboard session (dashboard.py, one script run per interaction)
    disk,          \* the file at csv_path
    session        \* what a script run leaves: the memo of load_csv_local
                   \* (cache), the widget values (mode, up,
                   \* selected_services, savings_filter, search_id,
                   \* only_idle), the multiselect's options and the
                   \* slider's max_value, and the run's df, data_loaded,
                   \* filtered view f and KPIs

scan_vars ==
    <<pc, ec2_api, rds_api, s3_api, all_rows, report, stdout, raised, upload, reloaded>>

dash_vars == <<disk, session>>

vars == <<scan_vars, dash_vars>>

(***************************************************************************)
(* What the cloud APIs may answer.                                         *)
(***************************************************************************)
\* Average values of the hourly CPU data points of one resource
CpuSeries == {<<>>, <<4>>, <<6>>, <<4, 6>>, <<4, 5>>, <<3, 8>>}

OkPage(contents) == [ok |-> TRUE, Contents |-> contents]
FailPage == [ok |-> FALSE, Contents |-> <<>>]

\* object listings of one bucket, page by page (object sizes in MiB)
PageLists ==
    {<<OkPage(<<>>)>>, <<OkPage(<<512>>)>>, <<OkPage(<<5120>>)>>, <<FailPage>>,
     <<OkPage(<<5120>>), FailPage>>, <<OkPage(<<512>>), OkPage(<<512>>)>>,
     <<OkPage(<<5120, 512>>), OkPage(<<5120>>)>>}

Ec2Id(k) == <<"i", "-">> \o NatToChars(k)

RdsNames(k) ==
    {<<"d", "b">> \o NatToChars(k)} \cup (IF k = 1 THEN {<<"n", "u", "l", "l">>} ELSE {})

BucketNames(k) ==
    {<<"b">> \o NatToChars(k)} \cup
    (IF k = 1 THEN {<<"n", "a", "n">>, <<"0", "0", "7">>} ELSE {})

Ec2Responses(n) ==
    {[k \in 1..n |-> [InstanceId |-> Ec2Id(k), hasType |-> o[k].hasType,
                      InstanceType |-> sT2Micro, Datapoints |-> o[k].Datapoints]] :
        o \in [1..n -> [hasType : BOOLEAN, Datapoints : CpuSeries]]}

RdsResponses(n) ==
    {[k \in 1..n |-> [DBInstanceIdentifier |-> o[k].name, hasType |-> TRUE,
                      DBInstanceClass |-> sDbT3Micro, Datapoints |-> o[k].Datapoints]] :
        o \in {x \in [1..n -> [name : UNION {RdsNames(k) : k \in 1..n},
                               Datapoints : CpuSeries]] :
                 \A k \in 1..n : x[k].name \in RdsNames(k)}}

S3Responses(n) ==
    {[k \in 1..n |-> [Name |-> o[k].name, Pages |-> o[k].Pages]] :
        o \in {x \in [1..n -> [name : UNION {BucketNames(k) : k \in 1..n},
                               Pages : PageLists]] :
                 \A k \in 1..n : x[k].name \in BucketNames(k)}}

\* a report left on disk by an earlier run
OldReport == to_csv(analyze_ec2(<<[InstanceId |-> <<"i", "-", "0">>, hasType |-> TRUE,
                                   InstanceType |-> sT2Micro, Datapoints |-> <<6>>]>>))

NotLoaded == [err |-> FALSE, cols |-> <<>>, rows |-> <<>>]

(***************************************************************************)
(* Scanner run.                                                            *)
(***************************************************************************)
ScanInit ==
    /\ pc = "ec2"
    /\ ec2_api = <<>>
    /\ rds_api = <<>>
    /\ s3_api = <<>>
    /\ all_rows = <<>>
    /\ report = OldReport
    /\ stdout = <<>>
    /\ raised = FALSE
    /\ upload = "none"
    /\ reloaded = NotLoaded

\* all_rows.extend(analyze_ec2())
AnalyzeEC2 ==
    /\ pc = "ec2"
    /\ \E n \in 0..MaxRes : \E resp \in Ec2Responses(n) :
          /\ ec2_api' = resp
          /\ all_rows' = all_rows \o analyze_ec2(resp)
    /\ stdout' = Append(stdout, "Analyzing EC2...")
    /\ pc' = "rds"
    /\ UNCHANGED <<rds_api, s3_api, report, raised, upload, reloaded>>
    /\ UNCHANGED dash_vars

\* all_rows.extend(analyze_rds())
AnalyzeRDS ==
    /\ pc = "rds"
    /\ \E n \in 0..(MaxRes - Len(all_rows)) : \E resp \in RdsResponses(n) :
          /\ rds_api' = resp
          /\ all_rows' = all_rows \o analyze_rds(resp)
    /\ stdout' = Append(stdout, "Analyzing RDS...")
    /\ pc' = "s3"
    /\ UNCHANGED <<ec2_api, s3_api, report, raised, upload, reloaded>>
    /\ UNCHANGED dash_vars

\* all_rows.extend(analyze_s3())
AnalyzeS3 ==
    /\ pc = "s3"
    /\ \E n \in 0..(MaxRes - Len(all_rows)) : \E resp \in S3Responses(n) :
          /\ s3_api' = resp
          /\ all_rows' = all_rows \o analyze_s3(resp)
    /\ stdout' = Append(stdout, "Analyzing S3...")
    /\ pc' = "save"
    /\ UNCHANGED <<ec2_api, rds_api, report, raised, upload, reloaded>>
    /\ UNCHANGED dash_vars

\* describe_instances, describe_db_instances or list_buckets raises: nothing
\* catches it and the run aborts
ListingFails ==
    /\ pc \in {"ec2", "rds", "s3"}
    /\ stdout' = Append(stdout, IF pc = "ec2" THEN "Analyzing EC2..."
                                ELSE IF pc = "rds" THEN "Analyzing RDS..."
                                ELSE "Analyzing S3...")
    /\ raised' = TRUE
    /\ pc' = "exit"
    /\ UNCHANGED <<ec2_api, rds_api, s3_api, all_rows, report, upload, reloaded>>
    /\ UNCHANGED dash_vars

\* df = pd.DataFrame(all_rows); df.to_csv(REPORT_FILE, index=False)
SaveReport ==
    /\ pc = "save"
    /\ report' = to_csv(all_rows)
    /\ stdout' = Append(stdout, "Report saved")
    /\ pc' = "upload"
    /\ UNCHANGED <<ec2_api, rds_api, s3_api, all_rows, raised, upload, reloaded>>
    /\ UNCHANGED dash_vars

\* "except Exception" catches every exception of the try block
UploadCaughtMut(e) == e = "ClientError"
UploadCaught(e) == TRUE

\* s3.upload_file(REPORT_FILE, S3_BUCKET, REPORT_FILE): the assignment of
\* S3_BUCKET is commented out, so evaluating the arguments raises NameError
UploadReport ==
    /\ pc = "upload"
    /\ LET e == "NameError"
       IN  IF UploadCaught(e)
           THEN /\ stdout' = Append(stdout, "Error uploading to S3")
                /\ raised' = FALSE
           ELSE /\ stdout' = stdout
                /\ raised' = TRUE
    /\ upload' = "failed"
    /\ pc' = "exit"
    /\ UNCHANGED <<ec2_api, rds_api, s3_api, all_rows, report, reloaded>>
    /\ UNCHANGED dash_vars

\* the dashboard reads the report the run left: load_csv_local(REPORT_FILE)
DashboardLoad ==
    /\ pc = "exit"
    /\ ~raised
    /\ reloaded' = load_csv_local(report)
    /\ pc' = "loaded"
    /\ UNCHANGED <<ec2_api, rds_api, s3_api, all_rows, report, stdout, raised, upload>>
    /\ UNCHANGED dash_vars

ScanNext ==
    \/ AnalyzeEC2
    \/ AnalyzeRDS
    \/ AnalyzeS3
    \/ ListingFails
    \/ SaveReport
    \/ UploadReport
    \/ DashboardLoad

(***************************************************************************)
(* Dashboard session.                                                      *)
(***************************************************************************)
NoFile == [exists |-> FALSE, file |-> [header |-> <<>>, rows |-> <<>>]]
OnDisk(file) == [exists |-> TRUE, file |-> file]
NoUpload == [present |-> FALSE, file |-> [header |-> <<>>, rows |-> <<>>]]
Uploaded(file) == [present |-> TRUE, file |-> file]
EmptyCache == [hit |-> FALSE, df |-> NotLoaded]
NoKpi == [total_cost |-> 0, total_savings |-> 0, flagged_count |-> 0]

\* a browser session before its first script run
NewSession ==
    [mode |-> LocalMode, cache |-> EmptyCache, up |-> NoUpload, df |-> NotLoaded,
     refresh |-> FALSE, data_loaded |-> FALSE, failed |-> FALSE, services |-> {},
     selected_services |-> {}, max_value |-> 0, savings_filter |-> 0,
     search_id |-> <<>>, only_idle |-> FALSE, f |-> <<>>, kpi |-> NoKpi]

\* the memoized call load_csv_local(csv_path): the memo is keyed by the path
\* alone, and nothing in the script clears it
CachedLoad(memo, file) == IF memo.hit THEN memo.df ELSE load_csv_local(file)

\* One run of the script, top to bottom.  `prev` is the session as the last
\* run left it, `m` and `u` the data-source widgets, `w` the values the
\* filter widgets hold, `clicked` whether a reload button triggered the run.  A widget keeps its value from run to run while it
\* is rendered with the same parameters; a widget a run does not reach
\* starts from its default the next time.  load_csv_upload is memoized by
\* the uploaded bytes, so its memo returns what the call computes.
Script(file_on_disk, prev, m, u, w, clicked) ==
    LET local_ok == m = LocalMode /\ file_on_disk.exists
        upload_ok == m = UploadMode /\ u.present
    IN  Value({
        LET loaded == (local_ok \/ upload_ok) /\ ~frame.err
            memo == IF local_ok /\ ~frame.err THEN [hit |-> TRUE, df |-> frame]
                    ELSE prev.cache
            opts == ServiceOptions(frame)
            mx == SliderMax(frame)
            sel == IF prev.data_loaded /\ prev.services = opts
                   THEN w.selected_services ELSE opts
            thr == IF prev.data_loaded /\ prev.max_value = mx
                   THEN w.savings_filter ELSE 0
            idle == prev.data_loaded /\ w.only_idle
            srch == IF prev.data_loaded THEN w.search_id ELSE <<>>
        IN  IF loaded
            THEN Value({
                     [mode |-> m, cache |-> memo, up |-> u, df |-> frame,
                      refresh |-> clicked, data_loaded |-> TRUE, failed |-> FALSE, services |-> opts,
                      selected_services |-> sel, max_value |-> mx,
                      savings_filter |-> thr, search_id |-> srch,
                      only_idle |-> idle, f |-> view, kpi |-> Kpis(frame, view)] :
                     view \in {FilterRows(frame.rows, sel, idle, thr, srch)}})
            ELSE [NewSession EXCEPT !.mode = m, !.cache = memo, !.up = u,
                                    !.refresh = clicked,
                                    !.failed = (local_ok \/ upload_ok)] :
        frame \in {IF local_ok THEN CachedLoad(prev.cache, file_on_disk.file)
                   ELSE IF upload_ok THEN load_csv_upload(u.file)
                   ELSE NotLoaded}})

Widgets ==
    [selected_services |-> session.selected_services,
     savings_filter |-> session.savings_filter,
     search_id |-> session.search_id, only_idle |-> session.only_idle]

Rerun(m, u, w, clicked) ==
    /\ session' = Script(disk, session, m, u, w, clicked)
    /\ UNCHANGED <<disk, scan_vars>>

(***************************************************************************)
(* Report files the dashboard is given.                                    *)
(***************************************************************************)
sCpu == <<"C", "P", "U", " ", "3", ".", "2", "0", "%">>
sSize == <<"S", "i", "z", "e", " ", "5", ".", "0", "0", " ", "G", "B">>

\* rows of a report, cell by cell, in the order of `expected`
RawRows ==
    {<<<<"i", "-", "1">>, sEC2, sT2Micro, sCpu, <<"1", "6", ".", "7", "9">>,
       <<"1", "6", ".", "7", "9">>>>,
     <<<<"b", "1">>, <<>>, sBucket, sSize, <<"5", "0">>, <<"1", "0">>>>,
     <<<<>>, sS3, sBucket, sSize, <<"a", "b", "c">>, <<"-", "5">>>>,
     <<<<"D", "B", ".", "1">>, sRDS, sDbT3Micro, sCpu, <<"2", "9", ".", "9", "3">>, <<>>>>}

RawTables == UNION {[1..n -> RawRows] : n \in 1..MaxRows}

Project(row, keep) == [j \in 1..Len(keep) |-> row[keep[j]]]

\* a file with the current column names, with the scanner's (legacy) names, or
\* without the Service and PotentialSavings columns
FileOf(kind, table) ==
    IF kind = "current" THEN [header |-> expected, rows |-> table]
    ELSE IF kind = "legacy" THEN [header |-> ScannerColumns, rows |-> table]
    ELSE [header |-> Project(expected, <<1, 3, 4, 5>>),
          rows |-> [k \in 1..Len(table) |-> Project(table[k], <<1, 3, 4, 5>>)]]

InputFiles == {FileOf(kind, t) : kind \in {"current", "legacy", "partial"}, t \in RawTables}

\* what a later run of the scanner leaves at csv_path
Rescans ==
    {to_csv(analyze_s3(<<[Name |-> <<"b", "9">>,
                          Pages |-> <<OkPage(<<5120>>)>>]>>))}

SliderStops == {0, 1, 10}
SearchTexts == {<<>>, <<".">>, <<"I">>}

DashInit ==
    /\ \E file \in InputFiles :
          /\ disk = OnDisk(file)
          /\ session = Script(OnDisk(file), NewSession, LocalMode, NoUpload,
                              [selected_services |-> {}, savings_filter |-> 0,
                               search_id |-> <<>>, only_idle |-> FALSE], FALSE)
    /\ ScanInit

\* the radio: the uploader exists only in upload mode
SetMode ==
    \E m \in {LocalMode, UploadMode} :
        /\ m # session.mode
        /\ Rerun(m, NoUpload, Widgets, FALSE)

\* the user uploads a copy of the report at csv_path
UploadFile ==
    /\ session.mode = UploadMode
    /\ disk.exists
    /\ session.up # Uploaded(disk.file)
    /\ Rerun(session.mode, Uploaded(disk.file), Widgets, FALSE)

\* the buttons "Reload file" and "Reload upload": the click reruns the script
\* with refresh = True, which the script never reads
ClickReload ==
    /\ session.mode \in {LocalMode, UploadMode}
    /\ Rerun(session.mode, session.up, Widgets, TRUE)

SetServices ==
    /\ session.data_loaded
    /\ \E S \in SUBSET session.services :
          /\ S # session.selected_services
          /\ Rerun(session.mode, session.up, [Widgets EXCEPT !.selected_services = S], FALSE)

SetSlider ==
    /\ session.data_loaded
    /\ \E v \in SliderStops :
          /\ v # session.savings_filter
          /\ 100 * v <= session.max_value
          /\ Rerun(session.mode, session.up, [Widgets EXCEPT !.savings_filter = v], FALSE)

SetSearch ==
    /\ session.data_loaded
    /\ \E t \in SearchTexts :
          /\ t # session.search_id
          /\ Rerun(session.mode, session.up, [Widgets EXCEPT !.search_id = t], FALSE)

SetOnlyIdle ==
    /\ session.data_loaded
    /\ Rerun(session.mode, session.up,
             [Widgets EXCEPT !.only_idle = ~session.only_idle], FALSE)

\* the analyzer script runs again and overwrites the report
Rescan ==
    /\ \E file \in Rescans :
          /\ disk # OnDisk(file)
          /\ disk' = OnDisk(file)
    /\ UNCHANGED <<session, scan_vars>>

DashNext ==
    \/ SetMode
    \/ UploadFile
    \/ ClickReload
    \/ SetServices
    \/ SetSlider
    \/ SetSearch
    \/ SetOnlyIdle
    \/ Rescan

\* the dashboard session; no scanner run is in progress
Spec == DashInit /\ [][DashNext]_vars

\* a scanner run, and the dashboard's load of the report it leaves
ScanOnlyInit ==
    /\ ScanInit
    /\ disk = NoFile
    /\ session = NewSession

SpecScan == ScanOnlyInit /\ [][ScanNext]_vars


(***************************************************************************)
(* Properties of a scanner run (SpecScan).                                 *)
(***************************************************************************)
ScanComplete == pc \in {"save", "upload", "loaded"} \/ (pc = "exit" /\ ~raised)

Ec2Row(k) == all_rows[k]
RdsRow(k) == all_rows[Len(ec2_api) + k]
S3RowAt(k) == all_rows[Len(ec2_api) + Len(rds_api) + k]

BelowFive(datapoints) == datapoints = <<>> \/ SumSeq(datapoints) < 5 * Len(datapoints)

IdleRule(row, datapoints) ==
    /\ row.EstimatedCostUSD.n > 0
    /\ row.PotentialSavingsUSD.n =
          IF BelowFive(datapoints) THEN row.EstimatedCostUSD.n ELSE 0

\* C7: every EC2 and every RDS record has PotentialSavings equal to its
\* EstimatedCost when the average of the returned CPU data points is below 5
\* and 0 when it is 5 or more; a resource with no data point is taken as
\* average 0, gets its record like any other and is flagged.
C7_IdleThreshold ==
    /\ pc # "ec2" => \A k \in 1..Len(ec2_api) :
                        k <= Len(all_rows) /\ IdleRule(Ec2Row(k), ec2_api[k].Datapoints)
    /\ pc \notin {"ec2", "rds"} =>
          \A k \in 1..Len(rds_api) :
              Len(ec2_api) + k <= Len(all_rows)
              /\ IdleRule(RdsRow(k), rds_api[k].Datapoints)

C7_Witness ==
    /\ ScanComplete
    /\ Len(ec2_api) = 1 /\ Len(rds_api) = 1
    /\ ec2_api[1].Datapoints = <<>>
    /\ Ec2Row(1).PotentialSavingsUSD.n = 1679
    /\ rds_api[1].Datapoints = <<4, 6>>
    /\ RdsRow(1).EstimatedCostUSD.n = 2993
    /\ RdsRow(1).PotentialSavingsUSD.n = 0

HasFailingPage(pages) == \E i \in 1..Len(pages) : ~pages[i].ok

ListedSize(pages) == SumSeq([i \in 1..Len(pages) |-> SumSeq(pages[i].Contents)])

sZeroSize == <<"S", "i", "z", "e", " ", "0", ".", "0", "0", " ", "G", "B">>

\* C8: the S3 sub-scan emits one record per listed bucket, in the order of
\* the listing, and raises nothing; a bucket one of whose pages fails, also
\* after pages that were read, is recorded with size 0, cost 0 and savings
\* 0, and every other bucket has the record of its full listing.
C8_BucketFailureSwallowed ==
    ScanComplete =>
        /\ Len(all_rows) = Len(ec2_api) + Len(rds_api) + Len(s3_api)
        /\ \A k \in 1..Len(s3_api) :
              /\ S3RowAt(k).ResourceID = s3_api[k].Name
              /\ S3RowAt(k).Service = sS3
              /\ IF HasFailingPage(s3_api[k].Pages)
                 THEN /\ S3RowAt(k).UsageMetric = sZeroSize
                      /\ S3RowAt(k).EstimatedCostUSD.n = 0
                      /\ S3RowAt(k).PotentialSavingsUSD.n = 0
                 ELSE S3RowAt(k) = S3Row(s3_api[k].Name, ListedSize(s3_api[k].Pages))

C8_Witness ==
    /\ ScanComplete
    /\ Len(s3_api) = 2 /\ Len(all_rows) = 2
    /\ s3_api[1].Pages = <<OkPage(<<5120>>), FailPage>>
    /\ all_rows[1].EstimatedCostUSD.n = 0
    /\ s3_api[2].Pages = <<OkPage(<<5120, 512>>), OkPage(<<5120>>)>>
    /\ all_rows[2].EstimatedCostUSD.n = 24
    /\ all_rows[2].PotentialSavingsUSD.n = 12

\* the ResourceID and Service cells the report must hold, EC2 rows first,
\* then RDS rows, then S3 rows
ScannedIds ==
    [k \in 1..Len(ec2_api) |-> <<ec2_api[k].InstanceId, sEC2>>] \o
    [k \in 1..Len(rds_api) |-> <<rds_api[k].DBInstanceIdentifier, sRDS>>] \o
    [k \in 1..Len(s3_api) |-> <<s3_api[k].Name, sS3>>]

ReportHoldsAllRows ==
    /\ Len(report.rows) = Len(ScannedIds)
    /\ \A k \in 1..Len(ScannedIds) :
          /\ report.rows[k][1] = ScannedIds[k][1]
          /\ report.rows[k][2] = ScannedIds[k][2]
    /\ report = to_csv(all_rows)

\* C9: when the three sub-scans complete, the report holds all rows (EC2,
\* then RDS, then S3) before the upload is attempted; when the upload fails,
\* here because the destination is unset, the failure is printed, the run
\* ends without raising and the report is as it was written.
C9_UploadFailureReported ==
    /\ pc = "upload" => upload = "none" /\ ~raised /\ ReportHoldsAllRows
    /\ upload = "failed" =>
          /\ ~raised
          /\ pc \in {"exit", "loaded"}
          /\ stdout[Len(stdout)] = "Error uploading to S3"
          /\ ReportHoldsAllRows

C9_Witness ==
    /\ upload = "failed"
    /\ pc = "exit"
    /\ ~raised
    /\ Len(ec2_api) = 1 /\ Len(s3_api) = 1
    /\ Len(report.rows) = 2
    /\ report # OldReport

\* C4: every record the scanner wrote comes back from the dashboard's load
\* with the same ResourceID, Service, ResourceType and UsageMetric and with
\* the same cost and savings to two decimals, and the row count is the same.
C4_RoundTrip ==
    pc = "loaded" =>
        /\ Len(reloaded.rows) = Len(all_rows)
        /\ \A k \in 1..Len(reloaded.rows) :
              /\ reloaded.rows[k]["ResourceID"] = Str(all_rows[k].ResourceID)
              /\ reloaded.rows[k]["Service"] = Str(all_rows[k].Service)
              /\ reloaded.rows[k]["ResourceType"] = Str(all_rows[k].ResourceType)
              /\ reloaded.rows[k]["UsageMetric"] = Str(all_rows[k].UsageMetric)
              /\ reloaded.rows[k]["EstimatedCost"].n = all_rows[k].EstimatedCostUSD.n
              /\ reloaded.rows[k]["PotentialSavings"].n = all_rows[k].PotentialSavingsUSD.n


(***************************************************************************)
(* Properties of a dashboard session (Spec).                               *)
(***************************************************************************)
\* text contains part, letter case ignored
ContainsIgnoreCase(text, part) ==
    \E off \in 0..(Len(text) - Len(part)) :
        \A j \in 1..Len(part) : Lower(part[j]) = Lower(text[off + j])

ActivePredicates(row) ==
    /\ row["Service"] \in session.selected_services
    /\ session.only_idle => row["PotentialSavings"].n > 0
    /\ session.savings_filter > 0 =>
          row["PotentialSavings"].n >= 100 * session.savings_filter
    /\ session.search_id # <<>> =>
          ContainsIgnoreCase(AsStr(row["ResourceID"]), session.search_id)

\* C1: the filtered view holds exactly the rows of the full dataset that
\* satisfy every active predicate: Service selected, PotentialSavings > 0
\* under the toggle, PotentialSavings >= threshold when it is above 0, and
\* ResourceID containing the search text, case ignored, when it is not empty.
C1_FilterConjunction ==
    session.data_loaded =>
        session.f = SelectSeq(session.df.rows, ActivePredicates)

FullTotals(rows) ==
    [total_cost |-> SumSeq([k \in 1..Len(rows) |-> rows[k]["EstimatedCost"].n]),
     total_savings |-> SumSeq([k \in 1..Len(rows) |-> rows[k]["PotentialSavings"].n]),
     flagged_count |->
         Cardinality({k \in 1..Len(rows) : rows[k]["PotentialSavings"].n > 0})]

\* C2: after every run the three KPIs are the totals of the full dataset,
\* and a run that leaves the loaded dataset as it was, whatever filter
\* control changed, leaves the three KPIs as they were.
C2_KpisOverFullDataset ==
    [][session'.data_loaded =>
          /\ session'.kpi = FullTotals(session'.df.rows)
          /\ (session.data_loaded /\ session'.df = session.df) =>
                session'.kpi = session.kpi]_vars

C2_Witness ==
    /\ session.data_loaded
    /\ Len(session.df.rows) = 2
    /\ Len(session.f) = 1
    /\ session.only_idle
    /\ session.kpi.total_cost > session.f[1]["EstimatedCost"].n
    /\ session.kpi.flagged_count = 2
    /\ session.kpi.total_savings = 2679

\* C3: a file's content loaded through the upload loader is the dataset the
\* local-path loader makes of the same content, legacy column names included.
C3_UploadEqualsLocal ==
    (session.mode = UploadMode /\ session.data_loaded) =>
        session.df = load_csv_local(session.up.file)

\* C5: in every loaded dataset, whatever the file held, EstimatedCost and
\* PotentialSavings of every row are numbers and are not negative.
C5_NumericNonNegative ==
    session.data_loaded =>
        \A k \in 1..Len(session.df.rows) :
            \A c \in NumericColumns :
                /\ session.df.rows[k][c].t = "num"
                /\ session.df.rows[k][c].n >= 0

\* C6: a run started by the reload button in local-path mode uses the
\* normalized content of the file that is at the path at that time, also
\* when a scan has overwritten the file since it was first loaded.
C6_ReloadReadsNewFile ==
    [][(session'.refresh /\ session'.mode = LocalMode /\ session'.data_loaded
        /\ disk' = disk)
          => session'.df = load_csv_local(disk.file)]_vars

\* C10: with the multiselect holding all its options, the toggle off, the
\* threshold 0 and the search text empty, the filtered view is the full
\* normalized dataset, also when rows have an empty Service cell.
C10_DefaultsKeepEveryRow ==
    (/\ session.data_loaded
     /\ session.selected_services = session.services
     /\ ~session.only_idle
     /\ session.savings_filter = 0
     /\ session.search_id = <<>>)
        => session.f = session.df.rows

=============================================================================
